---------------------------- MODULE Spec2Model ----------------------------
(***************************************************************************)
(* Model of backend/utils/model_manager.py (class ModelManager): the       *)
(* coroutines that probe, start and query the local Ollama runtime.        *)
(*                                                                         *)
(* The manager runs on one asyncio event loop, so a coroutine runs         *)
(* atomically from one await that suspends to the next.  Every action      *)
(* below is one such segment: it consumes the answer of the awaited HTTP   *)
(* call (or of the sleep) and runs the code up to the next suspension.     *)
(* `await self.get_client()` never suspends and is part of the segment.    *)
(***************************************************************************)
EXTENDS Integers, Sequences, FiniteSets, TLC

VARIABLES
    runtime,        \* the Ollama process as seen on /api/version: "up" | "down"
    inventory,      \* the model names the runtime would list on /api/tags
    current_model,  \* ModelManager.current_model
    proc,           \* one record per concurrent caller of the manager
    sessions,       \* main.py manager.sessions: session id -> list of messages
    reply,          \* the last answer of a session endpoint of main.py
    assembled       \* one application of _prepare_prompt: inputs and output

vars == <<runtime, inventory, current_model, proc, sessions, reply, assembled>>

-----------------------------------------------------------------------------
(* Bounds *)

MaxLines == 3       \* lines the runtime emits on one streamed response
MaxStored == 3      \* messages the sessions hold when a further turn is accepted
MaxHistory == 15    \* messages of a conversation_history given to _prepare_prompt

\* the coroutines that call into the manager concurrently
Procs == {"c1", "c2"}

-----------------------------------------------------------------------------
(* Values *)

DefaultModel == "llama3.2"
Models == {"llama3.2", "mistral"}

\* texts generate_response can return
ProbeAck == "Model switched successfully"
NoResponseText == "No response generated"
ErrUnavailable == "Error: Ollama service is not available"
ErrStatus == "Error: Failed to generate response (Status: 500)"
ErrException == "Error: connection failed"

ErrorTexts == {ErrUnavailable, ErrStatus, ErrException}

\* "successfully" in text.lower(), tabulated over the texts of the model
HasSuccessfully(text) == text \in {ProbeAck}

\* bodies of a 200 answer of POST /api/generate with stream false
GenBodies ==
    { [has_response |-> TRUE, response |-> ProbeAck],
      [has_response |-> TRUE, response |-> ""],
      [has_response |-> FALSE, response |-> ""] }

\* "success" in status.lower(), tabulated over the statuses of the model
ContainsSuccess(status) == status \in {"success"}

PullStatuses == {"downloading", "verifying", "success", "error"}

\* lines of the POST /api/pull stream: a JSON event or an unparseable line
\* a line is a JSON event, an unparseable line or an empty line
PullEvent(s) == [kind |-> "event", status |-> s]
PullLines ==
    { PullEvent(s) : s \in PullStatuses }
        \cup { [kind |-> k, status |-> ""] : k \in {"malformed", "empty"} }

\* lines of the POST /api/generate stream with stream true
Event(resp, done) ==
    [kind |-> "event", has_response |-> TRUE, response |-> resp, done |-> done]
NoResponseEvent ==
    [kind |-> "event", has_response |-> FALSE, response |-> "", done |-> FALSE]
Malformed ==
    [kind |-> "malformed", has_response |-> FALSE, response |-> "",
     done |-> FALSE]
EmptyLine ==
    [kind |-> "empty", has_response |-> FALSE, response |-> "", done |-> FALSE]
GenLines ==
    { Event("a", FALSE), Event("b", FALSE), Event("", TRUE),
      NoResponseEvent, Malformed, EmptyLine }

\* session ids and message texts of the chat requests
SessionIds == {"s1", "s2"}
ChatMessages == {"m1", "m2"}

\* the providers process_online_model dispatches on
Providers == {"claude", "openai", "deepseek"}

\* values of chat_request.online_provider: None, a provider, another string
OnlineProviders == Providers \cup {"none", "other"}

\* texts the remote path returns; the provider's name, which the code puts
\* in each text, is carried by the caller record
RemoteNotConfigured == "API key not configured"
RemoteAnswer == "remote answer"
RemoteApiError == "API error: 500"
RemoteException == "Error processing with provider"

\* an entry of a session's list (the timestamp is left out)
Message(role, content) == [role |-> role, content |-> content]

\* no session endpoint has answered yet
NoReply == [kind |-> "none", sid |-> "none", code |-> 0, messages |-> <<>>]

\* _prepare_prompt line 270: the messages of the history that are rendered
HistoryWindow == 10

\* the value of prompt before _prepare_prompt has returned
NoPrompt == [preamble |-> "", lines |-> <<>>, cue |-> ""]

\* _prepare_prompt has not been applied
NotAssembled == [history |-> <<>>, message |-> 0, prompt |-> NoPrompt]

-----------------------------------------------------------------------------
(* Caller records *)

Idle ==
    [ op        |-> "idle",   \* the manager method the caller invoked
      fn        |-> "none",   \* the manager method now executing
      pc        |-> "idle",   \* the await it is suspended on
      name      |-> "none",   \* model_name / model argument
      probe     |-> "none",   \* last check_ollama_status result seen in fn
      status    |-> 0,        \* response.status_code of fn's request, 0: none
      raised    |-> FALSE,    \* fn's request or stream raised
      available |-> {},       \* switch_model's available_models
      listed    |-> FALSE,    \* available_models has been assigned
      pulled    |-> "none",   \* what switch_model's pull_model returned
      test_response |-> "",   \* switch_model's test_response
      prefs     |-> <<>>,     \* optimize_model_selection's recommended_models
      sid       |-> "none",   \* chat_endpoint's session_id
      message   |-> "",       \* chat_request.message
      use_online |-> FALSE,   \* chat_request.use_online
      provider  |-> "none",   \* chat_request.online_provider, "none": None
      remote    |-> 0,        \* requests the call sent to a remote provider
      has_key   |-> FALSE,    \* the adapter called found its API key set
      response  |-> "",       \* chat_endpoint's response, the backend's text
      attached  |-> FALSE,    \* the list passed on is still in manager.sessions
      held      |-> <<>>,     \* that list, once it is no longer in the store
      prompt    |-> NoPrompt, \* the prompt of the generation request in flight
      messages  |-> <<>>,     \* "messages" of the request to a provider in flight
      fault     |-> FALSE,    \* the handler raised HTTPException(500)
      endpoint  |-> "none",   \* the /models route that made the call, if any
      code      |-> 0,        \* status code that route answered, 0: none
      spawns    |-> 0,        \* `ollama serve` processes spawned by the call
      posts     |-> 0,        \* POST /api/generate requests sent by the call
      sent      |-> {},       \* the endpoints the call sent a request to
      lines     |-> <<>>,     \* lines read from the open stream
      chunks    |-> <<>>,     \* chunks yielded by generate_streaming_response
      stream    |-> "none",   \* the generation stream: "none", "open", "closed"
      cancelled |-> FALSE,    \* the consumer closed the generator
      ok        |-> FALSE,    \* boolean return value
      text      |-> "",       \* string return value
      models    |-> {} ]      \* list return value

Ret(b, t, m) == [ok |-> b, text |-> t, models |-> m]

\* the top-level call returns v; its request and the list it was given
\* are gone with it
Done(r, v) ==
    [r EXCEPT !.pc = "done", !.fn = "none",
              !.ok = v.ok, !.text = v.text, !.models = v.models,
              !.prompt = NoPrompt, !.messages = <<>>,
              !.attached = FALSE, !.held = <<>>]

\* a manager method is entered and runs to its first await, the version probe
Enter(r, f) ==
    [r EXCEPT !.fn = f, !.pc = "check", !.probe = "none", !.status = 0,
              !.raised = FALSE, !.lines = <<>>]

-----------------------------------------------------------------------------
(* ModelManager, as continuations between awaits *)

\* a check_ollama_status that reports the runtime up whatever the answer
check_ollama_status_Always == TRUE

\* check_ollama_status: GET /api/version answered 200; a refused
\* connection or a timeout raises inside the try and gives False
check_ollama_status == runtime = "up"

\* a switch_model that commits whatever the probe returned
SwitchCommits_Any(test_response) == TRUE

\* switch_model line 150: the test on the probe's text
SwitchCommits(test_response) ==
    HasSuccessfully(test_response) \/ test_response # ""

\* pull_model line 119: the test on a progress event's status
PullSucceeded(status) ==
    ContainsSuccess(status) \/ status = "success"

\* pull_model line 127: the value returned when the progress stream ends
PullStreamEnd == TRUE

\* a switch_model that goes on to the probe whatever pull_model returned
switch_model_IgnorePull(r, f, v) ==
    CASE f = "list" ->
            LET r1 == [r EXCEPT !.available = v.models, !.listed = TRUE]
            IN  IF r.name \in v.models
                THEN Enter(r1, "gen")
                ELSE Enter(r1, "pull")
      [] f = "pull" ->
            Enter([r EXCEPT !.pulled = IF v.ok THEN "ok" ELSE "failed"], "gen")
      [] OTHER ->
            Done([r EXCEPT !.test_response = v.text],
                 Ret(SwitchCommits(v.text), "", {}))

\* switch_model resumed when the method f it awaited returns v
switch_model(r, f, v) ==
    CASE f = "list" ->
            LET r1 == [r EXCEPT !.available = v.models, !.listed = TRUE]
            IN  IF r.name \in v.models
                THEN Enter(r1, "gen")
                ELSE Enter(r1, "pull")
      [] f = "pull" ->
            LET r1 == [r EXCEPT !.pulled = IF v.ok THEN "ok" ELSE "failed"]
            IN  IF ~v.ok
                THEN Done(r1, Ret(FALSE, "", {}))
                ELSE Enter(r1, "gen")
      [] OTHER ->
            LET r1 == [r EXCEPT !.test_response = v.text]
            IN  IF SwitchCommits(v.text)
                THEN Done(r1, Ret(TRUE, "", {}))
                ELSE Done(r1, Ret(FALSE, "", {}))

\* the first entry of the preference list that the listing holds
FirstAvailable(prefs, available) ==
    LET hits == {i \in 1..Len(prefs) : prefs[i] \in available}
    IN  prefs[CHOOSE i \in hits : \A j \in hits : i <= j]

\* an optimize_model_selection that takes the head of the preference list
\* without looking it up in the listing
optimize_model_selection_FirstEntry(r, f, v) ==
    IF f = "list"
    THEN LET r1 == [r EXCEPT !.available = v.models, !.listed = TRUE]
         IN  IF r.prefs # <<>>
             THEN Done(r1, Ret(FALSE, r.prefs[1], {}))
             ELSE Done(r1, Ret(FALSE, current_model, {}))
    ELSE Done(r, Ret(FALSE, current_model, {}))

\* optimize_model_selection resumed when the method f it awaited returns v
optimize_model_selection(r, f, v) ==
    IF f = "list"
    THEN LET r1 == [r EXCEPT !.available = v.models, !.listed = TRUE]
         IN  IF \E i \in 1..Len(r.prefs) : r.prefs[i] \in v.models
             THEN Done(r1, Ret(FALSE, FirstAvailable(r.prefs, v.models), {}))
             ELSE IF r.prefs # <<>>
                  THEN Enter([r1 EXCEPT !.name = r.prefs[1]], "pull")
                  ELSE Done(r1, Ret(FALSE, current_model, {}))
    ELSE LET r1 == [r EXCEPT !.pulled = IF v.ok THEN "ok" ELSE "failed"]
         IN  IF v.ok
             THEN Done(r1, Ret(FALSE, r.prefs[1], {}))
             ELSE Done(r1, Ret(FALSE, current_model, {}))

\* chat_endpoint lines 158-174 resumed with the backend's text: line 159
\* indexes manager.sessions by the session id, the KeyError of an absent
\* id is caught at line 172 and raised as HTTPException(500)
chat_endpoint(r, v) ==
    LET r1 == [r EXCEPT !.response = v.text]
    IN  IF r.sid \in DOMAIN sessions
        THEN Done(r1, v)
        ELSE Done([r1 EXCEPT !.fault = TRUE], Ret(FALSE, "", {}))

\* websocket_endpoint lines 287-292 resumed with the backend's text: the
\* response is sent on the socket; nothing is written to manager.sessions
websocket_endpoint(r, v) == Done([r EXCEPT !.response = v.text], v)

\* main.py lines 228-262, the routes /models/switch and /models/pull
\* resumed when the manager's method has returned: on False line 235 / 253
\* raises HTTPException(400) inside the try, whose `except Exception`
\* (lines 243, 260) catches it and raises HTTPException(500)
models_route(r) ==
    IF r.pc = "done" /\ r.endpoint # "none"
    THEN [r EXCEPT !.code = IF r.ok THEN 200 ELSE 500]
    ELSE r

\* the executing method returns v to whoever awaited it
Return(r, v) ==
    CASE r.op = "switch" -> models_route(switch_model(r, r.fn, v))
      [] r.op = "optimize" -> optimize_model_selection(r, r.fn, v)
      [] r.op = "chat" -> chat_endpoint(r, v)
      [] r.op = "ws" -> websocket_endpoint(r, v)
      [] OTHER -> models_route(Done(r, v))

\* _prepare_prompt: a prompt is kept as its parts, the system preamble,
\* the rendered lines in order and the trailing cue
\* a rendered line "<speaker>: <content>\n"
Line(speaker, content) == [speaker |-> speaker, content |-> content]

\* a slice that keeps one message more than the window
Recent_Eleven(history) ==
    SubSeq(history,
           IF Len(history) > HistoryWindow + 1
           THEN Len(history) - HistoryWindow
           ELSE 1,
           Len(history))

\* conversation_history[-10:]
Recent(history) ==
    SubSeq(history,
           IF Len(history) > HistoryWindow
           THEN Len(history) - HistoryWindow + 1
           ELSE 1,
           Len(history))

\* _prepare_prompt lines 271-277: one line per message of role user or
\* assistant, nothing for another role
RECURSIVE Render(_)
Render(msgs) ==
    IF msgs = <<>>
    THEN <<>>
    ELSE (CASE Head(msgs).role = "user" ->
                  <<Line("User", Head(msgs).content)>>
            [] Head(msgs).role = "assistant" ->
                  <<Line("Assistant", Head(msgs).content)>>
            [] OTHER -> <<>>) \o Render(Tail(msgs))

\* a _prepare_prompt that leaves the trailing cue out
prepare_prompt_NoCue(message, history) ==
    [preamble |-> "System",
     lines |-> Render(Recent(history)) \o <<Line("User", message)>>,
     cue |-> ""]

\* _prepare_prompt lines 263-281
prepare_prompt(message, history) ==
    [preamble |-> "System",
     lines |-> Render(Recent(history)) \o <<Line("User", message)>>,
     cue |-> "Assistant"]

\* the list a handler of main.py passed as conversation_history: the
\* session's own list object, which later appends of any handler change,
\* until clear_session takes it out of manager.sessions
HeldHistory(r) ==
    IF r.op \notin {"chat", "ws"}
    THEN <<>>
    ELSE IF r.attached /\ r.sid \in DOMAIN sessions
         THEN sessions[r.sid]
         ELSE r.held

\* the endpoint each method queries
Endpoint(f) ==
    CASE f = "list" -> "/api/tags"
      [] f = "pull" -> "/api/pull"
      [] f = "delete" -> "/api/delete"
      [] f = "info" -> "/api/show"
      [] OTHER -> "/api/generate"

\* the request a method sends once the runtime answered the probe
SendRequest(r) ==
    [r EXCEPT !.pc = "request",
              !.sent = @ \cup {Endpoint(r.fn)},
              !.posts = IF r.fn \in {"gen", "stream"} THEN @ + 1 ELSE @,
              !.prompt = IF r.fn \in {"gen", "stream"}
                         THEN prepare_prompt(r.message, HeldHistory(r))
                         ELSE @]

\* methods that return nothing at all when start_ollama returned False
EnsureFailed_Empty(r) ==
    IF r.fn \in {"list", "pull", "gen"}
    THEN Return(r, Ret(FALSE, "", {}))
    ELSE Done(r, Ret(FALSE, "", {}))

\* what each method does when start_ollama returned False
EnsureFailed(r) ==
    CASE r.fn = "list" -> Return(r, Ret(FALSE, "", {}))
      [] r.fn = "pull" -> Return(r, Ret(FALSE, "", {}))
      [] r.fn = "gen" -> Return(r, Ret(FALSE, ErrUnavailable, {}))
      [] OTHER ->
            Done([r EXCEPT !.chunks = <<ErrUnavailable>>], Ret(FALSE, "", {}))

\* a probe after which every method calls start_ollama
AfterProbe_StartsAlways(r, up) ==
    IF up THEN SendRequest(r) ELSE [r EXCEPT !.pc = "start_check"]

\* `if not await self.check_ollama_status():` at the head of a method:
\* delete_model and get_model_info return at once (lines 286-287, 307-308),
\* the other methods call start_ollama
AfterProbe(r, up) ==
    IF up
    THEN SendRequest(r)
    ELSE IF r.fn \in {"delete", "info"}
         THEN Return(r, Ret(FALSE, "", {}))
         ELSE [r EXCEPT !.pc = "start_check"]

\* a method that sends its request whatever start_ollama returned
AfterStart_Unchecked(r, started) == SendRequest(r)

\* a method that waits for the runtime until start_ollama finds it up
AfterStart_Wait(r, started) ==
    IF started THEN SendRequest(r) ELSE [r EXCEPT !.pc = "start_sleep"]

\* a method that calls start_ollama again when it returned False
AfterStart_Retry(r, started) ==
    IF started THEN SendRequest(r) ELSE [r EXCEPT !.pc = "start_check"]

\* `if not await self.start_ollama():` at the head of a method
AfterStart(r, started) ==
    IF started THEN SendRequest(r) ELSE EnsureFailed(r)

\* pull_model's loop body on one line of the progress stream
OnPullLine(r, l) ==
    LET r1 == [r EXCEPT !.lines = Append(@, l)]
    IN  IF l.kind = "event" /\ PullSucceeded(l.status)
        THEN Return(r1, Ret(TRUE, "", {}))
        ELSE r1

\* a loop that lets an unparseable line reach the outer handler, which
\* reports it and ends the stream
OnStreamLine_AbortOnMalformed(r, l) ==
    LET r1 == [r EXCEPT !.lines = Append(@, l)]
        r2 == IF l.kind = "event" /\ l.has_response
              THEN [r1 EXCEPT !.chunks = Append(@, l.response)]
              ELSE r1
    IN  IF l.kind = "malformed"
        THEN Done([r1 EXCEPT !.chunks = Append(@, ErrException)],
                  Ret(FALSE, "", {}))
        ELSE IF l.kind = "event" /\ l.done
             THEN Done(r2, Ret(FALSE, "", {}))
             ELSE r2

\* a loop that does not break on the terminal event
OnStreamLine_PastDone(r, l) ==
    LET r1 == [r EXCEPT !.lines = Append(@, l)]
    IN  IF l.kind = "event" /\ l.has_response
        THEN [r1 EXCEPT !.chunks = Append(@, l.response)]
        ELSE r1

\* generate_streaming_response's loop body on one line of the stream
OnStreamLine(r, l) ==
    LET r1 == [r EXCEPT !.lines = Append(@, l)]
        r2 == IF l.kind = "event" /\ l.has_response
              THEN [r1 EXCEPT !.chunks = Append(@, l.response)]
              ELSE r1
    IN  IF l.kind = "event" /\ l.done
        THEN Done([r2 EXCEPT !.stream = "closed"], Ret(FALSE, "", {}))
        ELSE r2

\* a generator that takes note of the close and goes on reading the stream
OnClose_KeepReading(r) == [r EXCEPT !.cancelled = TRUE]

\* generate_streaming_response closed by its consumer while suspended in
\* the loop of lines 243-253: GeneratorExit (or CancelledError) is raised
\* at the suspension, is not an Exception for line 257, and leaves the
\* `async with` of line 227, which closes the response
OnClose(r) ==
    Done([r EXCEPT !.cancelled = TRUE, !.stream = "closed"],
         Ret(FALSE, "", {}))

\* generate_response lines 196-201 on an answer of POST /api/generate
GenResult(status, body) ==
    IF status = 200
    THEN IF body.has_response THEN body.response ELSE NoResponseText
    ELSE ErrStatus

-----------------------------------------------------------------------------
(* Actions *)

Ops == {"list", "pull", "gen", "stream", "switch", "delete", "info"}
HttpStatuses == {200, 500}

\* the awaited request raised (connection refused, timeout, broken stream)
Raised(r) == [r EXCEPT !.raised = TRUE]

\* the awaited request was answered with an HTTP status
Answered(r, status) == [r EXCEPT !.status = status]

\* a manager whose generation with an explicit model also moves the pointer
Committed_OnGenerate(r) ==
    \/ r.op = "switch" /\ r.pc = "done" /\ r.ok
    \/ r.op = "gen" /\ r.pc = "done"

\* self.current_model is assigned exactly when switch_model returns True
Committed(r) == r.op = "switch" /\ r.pc = "done" /\ r.ok

\* chat_endpoint reached its return statement in the segment that led to r
Stored(r) == r.op = "chat" /\ r.pc = "done" /\ ~r.fault

\* a handler that puts the assistant message at the head of the list
AppendAssistant_Front(s, r) ==
    IF Stored(r)
    THEN [s EXCEPT ![r.sid] = <<Message("assistant", r.text)>> \o @]
    ELSE s

\* chat_endpoint lines 159-163: the assistant message is appended
AppendAssistant(s, r) ==
    IF Stored(r)
    THEN [s EXCEPT ![r.sid] = Append(@, Message("assistant", r.text))]
    ELSE s

\* caller p moves to record r
Step(p, r) ==
    /\ proc' = [proc EXCEPT ![p] = r]
    /\ current_model' = IF Committed(r) THEN r.name ELSE current_model
    /\ sessions' = AppendAssistant(sessions, r)
    /\ UNCHANGED <<reply, assembled>>

\* the model names a call of method o can be given
Names(o) == IF o = "list" THEN {"none"} ELSE Models

\* method o is invoked with model name m
Invoke(p, o, m) ==
    LET r == [Idle EXCEPT !.op = o, !.name = m]
    IN  Step(p, Enter(r, IF o = "switch" THEN "list" ELSE o))

\* one client calling the manager, one call at a time
Init ==
    /\ runtime \in {"up", "down"}
    /\ inventory \in SUBSET Models
    /\ current_model = DefaultModel
    /\ proc = [p \in {"c1"} |-> Idle]
    /\ sessions = <<>>
    /\ reply = NoReply
    /\ assembled = NotAssembled

\* a caller invokes a manager method
Call(p) ==
    /\ proc[p].pc = "idle"
    /\ \E o \in Ops : \E m \in Names(o) : Invoke(p, o, m)
    /\ UNCHANGED <<runtime, inventory>>

\* the preference lists get_model_for_task can return (config.py line 218)
PreferenceLists == { <<>>, <<"llama3.2">>, <<"mistral", "llama3.2">> }

\* a caller invokes optimize_model_selection, which lists the inventory
OptimizeCall(p) ==
    /\ proc[p].pc = "idle"
    /\ \E recommended \in PreferenceLists :
          Step(p, Enter([Idle EXCEPT !.op = "optimize", !.prefs = recommended],
                        "list"))
    /\ UNCHANGED <<runtime, inventory>>

\* the probe at the head of a method is answered
CheckStatus(p) ==
    /\ proc[p].pc = "check"
    /\ LET up == check_ollama_status
           r == [proc[p] EXCEPT !.probe = IF up THEN "up" ELSE "down"]
       IN  Step(p, AfterProbe(r, up))
    /\ UNCHANGED <<runtime, inventory>>

\* start_ollama lines 42-56: its first probe is answered; when it fails the
\* process is spawned, and Popen either raises or the coroutine sleeps
StartCheck(p) ==
    /\ proc[p].pc = "start_check"
    /\ LET up == check_ollama_status
           r == [proc[p] EXCEPT !.probe = IF up THEN "up" ELSE "down"]
       IN  IF up
           THEN Step(p, AfterStart(r, TRUE))
           ELSE \E spawned \in BOOLEAN :
                   IF spawned
                   THEN Step(p, [r EXCEPT !.pc = "start_sleep",
                                          !.spawns = @ + 1])
                   ELSE Step(p, AfterStart(r, FALSE))
    /\ UNCHANGED <<runtime, inventory>>

\* a start_ollama that spawns the process again after the grace interval
SleepDone_Respawn(p) ==
    /\ proc[p].pc = "start_sleep"
    /\ Step(p, [proc[p] EXCEPT !.pc = "start_recheck", !.spawns = @ + 1])
    /\ UNCHANGED <<runtime, inventory>>

\* start_ollama line 59: the grace interval is over, the re-probe is sent
SleepDone(p) ==
    /\ proc[p].pc = "start_sleep"
    /\ Step(p, [proc[p] EXCEPT !.pc = "start_recheck"])
    /\ UNCHANGED <<runtime, inventory>>

\* start_ollama line 62: the re-probe is answered
Recheck(p) ==
    /\ proc[p].pc = "start_recheck"
    /\ LET up == check_ollama_status
           r == [proc[p] EXCEPT !.probe = IF up THEN "up" ELSE "down"]
       IN  Step(p, AfterStart(r, up))
    /\ UNCHANGED <<runtime, inventory>>

\* get_available_models lines 81-93: GET /api/tags is answered
ListResponse(p) ==
    /\ proc[p].pc = "request" /\ proc[p].fn = "list"
    /\ IF runtime = "down"
       THEN Step(p, Return(Raised(proc[p]), Ret(FALSE, "", {})))
       ELSE \E status \in HttpStatuses :
               Step(p, Return(Answered(proc[p], status),
                       Ret(FALSE, "", IF status = 200 THEN inventory ELSE {})))
    /\ UNCHANGED <<runtime, inventory>>

\* pull_model lines 105-110, 123-131: POST /api/pull is answered
PullResponse(p) ==
    /\ proc[p].pc = "request" /\ proc[p].fn = "pull"
    /\ IF runtime = "down"
       THEN Step(p, Return(Raised(proc[p]), Ret(FALSE, "", {})))
       ELSE \E status \in HttpStatuses :
               LET r == Answered(proc[p], status)
               IN  IF status = 200
                   THEN Step(p, [r EXCEPT !.pc = "lines"])
                   ELSE Step(p, Return(r, Ret(FALSE, "", {})))
    /\ UNCHANGED <<runtime, inventory>>

\* pull_model lines 111-122: the runtime emits a progress line; a success
\* event means the runtime has installed the model
PullLine(p) ==
    /\ proc[p].pc = "lines" /\ proc[p].fn = "pull"
    /\ Len(proc[p].lines) < MaxLines
    /\ runtime = "up"
    /\ \E l \in PullLines :
          /\ Step(p, OnPullLine(proc[p], l))
          /\ inventory' = IF l.kind = "event" /\ l.status = "success"
                          THEN inventory \cup {proc[p].name}
                          ELSE inventory
    /\ UNCHANGED runtime

\* pull_model line 127: the progress stream ends
PullClosed(p) ==
    /\ proc[p].pc = "lines" /\ proc[p].fn = "pull"
    /\ Step(p, Return(proc[p], Ret(PullStreamEnd, "", {})))
    /\ UNCHANGED <<runtime, inventory>>

\* pull_model lines 129-131: reading the progress stream raises
PullError(p) ==
    /\ proc[p].pc = "lines" /\ proc[p].fn = "pull"
    /\ Step(p, Return(Raised(proc[p]), Ret(FALSE, "", {})))
    /\ UNCHANGED <<runtime, inventory>>

\* a generate_response that posts its request again when it failed
GenResponse_Resend(p) ==
    /\ proc[p].pc = "request" /\ proc[p].fn = "gen"
    /\ IF runtime = "down"
       THEN Step(p, SendRequest(Raised(proc[p])))
       ELSE \E status \in HttpStatuses, body \in GenBodies :
               IF status = 200
               THEN Step(p, Return(Answered(proc[p], status),
                                   Ret(FALSE, GenResult(status, body), {})))
               ELSE Step(p, SendRequest(Answered(proc[p], status)))
    /\ UNCHANGED <<runtime, inventory>>

\* generate_response lines 181-205: POST /api/generate is answered
GenResponse(p) ==
    /\ proc[p].pc = "request" /\ proc[p].fn = "gen"
    /\ IF runtime = "down"
       THEN Step(p, Return(Raised(proc[p]), Ret(FALSE, ErrException, {})))
       ELSE \E status \in HttpStatuses, body \in GenBodies :
               Step(p, Return(Answered(proc[p], status),
                              Ret(FALSE, GenResult(status, body), {})))
    /\ UNCHANGED <<runtime, inventory>>

\* generate_streaming_response lines 227-242, 254-259: the stream is opened
StreamResponse(p) ==
    /\ proc[p].pc = "request" /\ proc[p].fn = "stream"
    /\ IF runtime = "down"
       THEN Step(p, Done([Raised(proc[p]) EXCEPT !.chunks = <<ErrException>>],
                         Ret(FALSE, "", {})))
       ELSE \E status \in HttpStatuses :
               LET r == Answered(proc[p], status)
               IN  IF status = 200
                   THEN Step(p, [r EXCEPT !.pc = "lines", !.stream = "open"])
                   ELSE Step(p, Done([r EXCEPT !.chunks = <<ErrStatus>>,
                                               !.stream = "closed"],
                                     Ret(FALSE, "", {})))
    /\ UNCHANGED <<runtime, inventory>>

\* generate_streaming_response lines 243-253: the runtime emits a line
StreamLine(p) ==
    /\ proc[p].pc = "lines" /\ proc[p].fn = "stream"
    /\ Len(proc[p].lines) < MaxLines
    /\ runtime = "up"
    /\ \E l \in GenLines : Step(p, OnStreamLine(proc[p], l))
    /\ UNCHANGED <<runtime, inventory>>

\* the runtime closes the stream without a terminal event
StreamClosed(p) ==
    /\ proc[p].pc = "lines" /\ proc[p].fn = "stream"
    /\ Step(p, Done([proc[p] EXCEPT !.stream = "closed"], Ret(FALSE, "", {})))
    /\ UNCHANGED <<runtime, inventory>>

\* generate_streaming_response lines 257-259: reading the stream raises
StreamError(p) ==
    /\ proc[p].pc = "lines" /\ proc[p].fn = "stream"
    /\ Step(p, Done([Raised(proc[p]) EXCEPT !.chunks = Append(@, ErrException),
                                           !.stream = "closed"],
                    Ret(FALSE, "", {})))
    /\ UNCHANGED <<runtime, inventory>>

\* delete_model lines 310-320: DELETE /api/delete is answered; a 200 answer
\* means the runtime removed the model
DeleteResponse(p) ==
    /\ proc[p].pc = "request" /\ proc[p].fn = "delete"
    /\ IF runtime = "down"
       THEN /\ Step(p, Return(Raised(proc[p]), Ret(FALSE, "", {})))
            /\ inventory' = inventory
       ELSE \E status \in HttpStatuses :
               /\ Step(p, Return(Answered(proc[p], status),
                                 Ret(status = 200, "", {})))
               /\ inventory' = IF status = 200
                               THEN inventory \ {proc[p].name}
                               ELSE inventory
    /\ UNCHANGED runtime

\* get_model_info lines 289-302: POST /api/show is answered; the value
\* returned is the body of a 200 answer (ok) or None
InfoResponse(p) ==
    /\ proc[p].pc = "request" /\ proc[p].fn = "info"
    /\ IF runtime = "down"
       THEN Step(p, Return(Raised(proc[p]), Ret(FALSE, "", {})))
       ELSE \E status \in HttpStatuses :
               Step(p, Return(Answered(proc[p], status),
                              Ret(status = 200, "", {})))
    /\ UNCHANGED <<runtime, inventory>>

\* the consumer stops before the terminal event and closes the generator
StreamCancel(p) ==
    /\ proc[p].pc = "lines" /\ proc[p].fn = "stream"
    /\ ~proc[p].cancelled
    /\ Step(p, OnClose(proc[p]))
    /\ UNCHANGED <<runtime, inventory>>

\* the caller has taken the result
Finish(p) ==
    /\ proc[p].pc = "done"
    /\ proc' = [proc EXCEPT ![p] = Idle]
    /\ UNCHANGED <<runtime, inventory, current_model, sessions, reply,
                   assembled>>

\* the runtime process comes up or goes down on its own
RuntimeChange ==
    /\ runtime' = IF runtime = "up" THEN "down" ELSE "up"
    /\ UNCHANGED <<inventory, current_model, proc, sessions, reply, assembled>>

\* a model is installed or removed by another client of the runtime
InventoryChange ==
    /\ runtime = "up"
    /\ \E m \in Models :
          inventory' = IF m \in inventory THEN inventory \ {m}
                       ELSE inventory \cup {m}
    /\ UNCHANGED <<runtime, current_model, proc, sessions, reply, assembled>>

Next ==
    \/ \E p \in DOMAIN proc : Call(p)
    \/ \E p \in DOMAIN proc : OptimizeCall(p)
    \/ \E p \in DOMAIN proc : CheckStatus(p)
    \/ \E p \in DOMAIN proc : StartCheck(p)
    \/ \E p \in DOMAIN proc : SleepDone(p)
    \/ \E p \in DOMAIN proc : Recheck(p)
    \/ \E p \in DOMAIN proc : ListResponse(p)
    \/ \E p \in DOMAIN proc : PullResponse(p)
    \/ \E p \in DOMAIN proc : PullLine(p)
    \/ \E p \in DOMAIN proc : PullClosed(p)
    \/ \E p \in DOMAIN proc : PullError(p)
    \/ \E p \in DOMAIN proc : GenResponse(p)
    \/ \E p \in DOMAIN proc : StreamResponse(p)
    \/ \E p \in DOMAIN proc : StreamLine(p)
    \/ \E p \in DOMAIN proc : StreamClosed(p)
    \/ \E p \in DOMAIN proc : StreamError(p)
    \/ \E p \in DOMAIN proc : StreamCancel(p)
    \/ \E p \in DOMAIN proc : DeleteResponse(p)
    \/ \E p \in DOMAIN proc : InfoResponse(p)
    \/ \E p \in DOMAIN proc : Finish(p)
    \/ RuntimeChange
    \/ InventoryChange

Spec == Init /\ [][Next]_vars

-----------------------------------------------------------------------------
(* Concurrent callers: every coroutine of Procs is live and invokes the     *)
(* methods of ConcOps, which all begin with the probe-and-start sequence.   *)

ConcOps == {"list", "gen"}

InitConc ==
    /\ runtime \in {"up", "down"}
    /\ inventory \in SUBSET Models
    /\ current_model = DefaultModel
    /\ proc = [p \in Procs |-> Idle]
    /\ sessions = <<>>
    /\ reply = NoReply
    /\ assembled = NotAssembled

ConcCall(p) ==
    /\ proc[p].pc = "idle"
    /\ \E o \in ConcOps : \E m \in Names(o) : Invoke(p, o, m)
    /\ UNCHANGED <<runtime, inventory>>

NextConc ==
    \/ \E p \in DOMAIN proc : ConcCall(p)
    \/ \E p \in DOMAIN proc : CheckStatus(p)
    \/ \E p \in DOMAIN proc : StartCheck(p)
    \/ \E p \in DOMAIN proc : SleepDone(p)
    \/ \E p \in DOMAIN proc : Recheck(p)
    \/ \E p \in DOMAIN proc : ListResponse(p)
    \/ \E p \in DOMAIN proc : GenResponse(p)
    \/ \E p \in DOMAIN proc : Finish(p)
    \/ RuntimeChange
    \/ InventoryChange

SpecConc == InitConc /\ [][NextConc]_vars

-----------------------------------------------------------------------------
(* main.py: the routes /models/switch and /models/pull, one client.        *)

\* values of model_request.provider: the default and another one
SwitchProviders == {"ollama", "openai"}

\* POST /models/switch, lines 228-241 up to the first await: the manager is
\* called for provider "ollama" only; for another provider the route
\* answers success at once
SwitchEndpoint(p) ==
    /\ proc[p].pc = "idle"
    /\ \E m \in Models, provider \in SwitchProviders :
          LET r == [Idle EXCEPT !.op = "switch", !.endpoint = "switch",
                                !.name = m, !.provider = provider]
          IN  IF provider = "ollama"
              THEN Step(p, Enter(r, "list"))
              ELSE Step(p, [r EXCEPT !.pc = "done", !.code = 200])
    /\ UNCHANGED <<runtime, inventory>>

\* POST /models/pull/{model_name}, lines 247-251 up to the first await
PullEndpoint(p) ==
    /\ proc[p].pc = "idle"
    /\ \E m \in Models :
          Step(p, Enter([Idle EXCEPT !.op = "pull", !.endpoint = "pull",
                                     !.name = m], "pull"))
    /\ UNCHANGED <<runtime, inventory>>

NextModels ==
    \/ \E p \in DOMAIN proc : SwitchEndpoint(p)
    \/ \E p \in DOMAIN proc : PullEndpoint(p)
    \/ \E p \in DOMAIN proc : CheckStatus(p)
    \/ \E p \in DOMAIN proc : StartCheck(p)
    \/ \E p \in DOMAIN proc : SleepDone(p)
    \/ \E p \in DOMAIN proc : Recheck(p)
    \/ \E p \in DOMAIN proc : ListResponse(p)
    \/ \E p \in DOMAIN proc : PullResponse(p)
    \/ \E p \in DOMAIN proc : PullLine(p)
    \/ \E p \in DOMAIN proc : PullClosed(p)
    \/ \E p \in DOMAIN proc : PullError(p)
    \/ \E p \in DOMAIN proc : GenResponse(p)
    \/ \E p \in DOMAIN proc : Finish(p)
    \/ RuntimeChange
    \/ InventoryChange

SpecModels == Init /\ [][NextModels]_vars

-----------------------------------------------------------------------------
(* main.py: the chat endpoint and the session endpoints.  Each request     *)
(* handler is a coroutine on the same event loop as the manager's methods. *)

\* chat_endpoint lines 135-142: the session is created when absent and the
\* user message is appended
AppendUser(s, sid, message) ==
    IF sid \in DOMAIN s
    THEN [s EXCEPT ![sid] = Append(@, Message("user", message))]
    ELSE [x \in DOMAIN s \cup {sid} |->
             IF x = sid THEN <<Message("user", message)>> ELSE s[x]]

\* call_claude_api lines 328-332: "messages" of the request body
call_claude_api(message, history) == <<Message("user", message)>>

\* call_openai_api lines 348-350: "messages" of the request body
call_openai_api(message, history) ==
    <<Message("system", "JARVIS")>> \o Recent(history)
        \o <<Message("user", message)>>

\* call_deepseek_api lines 386-390: "messages" of the request body
call_deepseek_api(message, history) == <<Message("user", message)>>

\* "messages" of the request the adapter of a provider posts
Payload(provider, message, history) ==
    CASE provider = "claude" -> call_claude_api(message, history)
      [] provider = "openai" -> call_openai_api(message, history)
      [] OTHER -> call_deepseek_api(message, history)

\* adapters that post to the provider before looking at the key
process_online_model_PostFirst(r, key, history) ==
    IF r.provider \notin Providers
    THEN Done([r EXCEPT !.response = RemoteException],
              Ret(FALSE, RemoteException, {}))
    ELSE [r EXCEPT !.fn = "online", !.pc = "remote", !.has_key = key,
                   !.remote = @ + 1, !.sent = @ \cup {r.provider},
                   !.messages = Payload(r.provider, r.message, history)]

\* a dispatch whose ValueError for an unsupported provider is not caught
process_online_model_Uncaught(r, key, history) ==
    IF r.provider \notin Providers
    THEN Done([r EXCEPT !.fault = TRUE], Ret(FALSE, "", {}))
    ELSE IF ~key
         THEN Done([r EXCEPT !.response = RemoteNotConfigured],
                   Ret(FALSE, RemoteNotConfigured, {}))
         ELSE [r EXCEPT !.fn = "online", !.pc = "remote", !.has_key = TRUE,
                        !.remote = @ + 1, !.sent = @ \cup {r.provider},
                   !.messages = Payload(r.provider, r.message, history)]

\* process_online_model lines 300-311 with the adapters' key test, run to
\* the first await: an unsupported provider raises ValueError, which line
\* 309 turns into a text; an adapter without a key returns its sentinel;
\* otherwise the adapter posts to the provider
process_online_model(r, key, history) ==
    IF r.provider \notin Providers
    THEN Done([r EXCEPT !.response = RemoteException],
              Ret(FALSE, RemoteException, {}))
    ELSE IF ~key
         THEN Done([r EXCEPT !.response = RemoteNotConfigured],
                   Ret(FALSE, RemoteNotConfigured, {}))
         ELSE [r EXCEPT !.fn = "online", !.pc = "remote", !.has_key = TRUE,
                        !.remote = @ + 1, !.sent = @ \cup {r.provider},
                   !.messages = Payload(r.provider, r.message, history)]

\* chat_endpoint line 145: the test that selects the remote path
UseRemote(use_online, provider) == use_online /\ provider # "none"

\* the adapters' lines on the provider's answer: the text of a 200
\* answer, the status text of another answer; a 200 body without the
\* expected fields raises KeyError, which process_online_model line 309
\* turns into a text
RemoteResult(status, wellformed) ==
    IF status = 200
    THEN IF wellformed THEN RemoteAnswer ELSE RemoteException
    ELSE RemoteApiError

\* a lookup that answers an absent id with the messages of another session
get_session_history_Any(s, sid) ==
    IF sid \in DOMAIN s
    THEN s[sid]
    ELSE IF DOMAIN s = {}
         THEN <<>>
         ELSE s[CHOOSE x \in DOMAIN s : TRUE]

\* manager.sessions.get(session_id, [])
get_session_history(s, sid) == IF sid \in DOMAIN s THEN s[sid] ELSE <<>>

\* clear_session lines 409-410
clear_session(s, sid) ==
    IF sid \in DOMAIN s THEN [x \in DOMAIN s \ {sid} |-> s[x]] ELSE s

\* the number of messages the sessions ids of s hold
RECURSIVE StoredIn(_, _)
StoredIn(s, ids) ==
    IF ids = {}
    THEN 0
    ELSE LET sid == CHOOSE x \in ids : TRUE
         IN  Len(s[sid]) + StoredIn(s, ids \ {sid})

\* chat_endpoint lines 132-156: a request is handled up to the first await
\* of its backend call or, when the backend answers without suspending, to
\* the return statement
Turn(p, sid, message, use_online, provider, key) ==
    LET r == [Idle EXCEPT !.op = "chat", !.name = DefaultModel,
                          !.sid = sid, !.message = message,
                          !.use_online = use_online, !.provider = provider,
                          !.attached = TRUE]
        r1 == IF UseRemote(use_online, provider)
              THEN process_online_model(
                       r, key, AppendUser(sessions, sid, message)[sid])
              ELSE Enter(r, "gen")
    IN  /\ StoredIn(sessions, DOMAIN sessions) < MaxStored
        /\ proc' = [proc EXCEPT ![p] = r1]
        /\ sessions' = AppendAssistant(AppendUser(sessions, sid, message), r1)
        /\ UNCHANGED <<runtime, inventory, current_model, reply, assembled>>

\* POST /chat arrives with any request body
ChatCall(p) ==
    /\ proc[p].pc = "idle"
    /\ \E sid \in SessionIds, message \in ChatMessages,
          use_online \in BOOLEAN, provider \in OnlineProviders,
          key \in BOOLEAN :
          Turn(p, sid, message, use_online, provider, key)

\* ConnectionManager.connect lines 76-80: the session is created when absent
connect(s, sid) ==
    IF sid \in DOMAIN s
    THEN s
    ELSE [x \in DOMAIN s \cup {sid} |-> IF x = sid THEN <<>> ELSE s[x]]

\* websocket_endpoint lines 266-267: a client connects on /ws/{session_id}
WsConnect(p) ==
    /\ proc[p].pc = "idle"
    /\ \E sid \in SessionIds :
          /\ proc' = [proc EXCEPT ![p] = [Idle EXCEPT !.op = "ws", !.sid = sid,
                                                      !.pc = "receive"]]
          /\ sessions' = connect(sessions, sid)
    /\ UNCHANGED <<runtime, inventory, current_model, reply, assembled>>

\* websocket_endpoint lines 270-285: a message arrives on the socket and is
\* handled up to the first await of its backend call; an absent
\* online_provider is read as "claude", the model as the default one, and
\* the history is manager.sessions.get(session_id, [])
WsReceive(p) ==
    /\ proc[p].pc = "receive"
    /\ \E message \in ChatMessages, use_online \in BOOLEAN,
          provider \in OnlineProviders, key \in BOOLEAN :
          LET r == [proc[p] EXCEPT
                       !.name = DefaultModel, !.message = message,
                       !.use_online = use_online,
                       !.provider = IF use_online /\ provider = "none"
                                    THEN "claude" ELSE provider,
                       !.attached = proc[p].sid \in DOMAIN sessions]
          IN  Step(p, IF use_online
                      THEN process_online_model(
                               r, key,
                               get_session_history(sessions, proc[p].sid))
                      ELSE Enter(r, "gen"))
    /\ UNCHANGED <<runtime, inventory>>

\* websocket_endpoint lines 294-295: the client disconnects
WsDisconnect(p) ==
    /\ proc[p].pc = "receive"
    /\ proc' = [proc EXCEPT ![p] = Idle]
    /\ UNCHANGED <<runtime, inventory, current_model, sessions, reply,
                   assembled>>

\* the provider answers the adapter's post, or the post raises
RemoteResponse(p) ==
    /\ proc[p].pc = "remote"
    /\ \/ Step(p, Return(Raised(proc[p]), Ret(FALSE, RemoteException, {})))
       \/ \E status \in HttpStatuses, wellformed \in BOOLEAN :
             Step(p, Return(Answered(proc[p], status),
                            Ret(FALSE, RemoteResult(status, wellformed), {})))
    /\ UNCHANGED <<runtime, inventory>>

\* GET /sessions/{session_id}
GetHistory ==
    /\ \E sid \in SessionIds :
          reply' = [kind |-> "history", sid |-> sid, code |-> 200,
                    messages |-> get_session_history(sessions, sid)]
    /\ UNCHANGED <<runtime, inventory, current_model, proc, sessions,
                   assembled>>

\* the list of session sid leaves manager.sessions: a handler that passed
\* it to generate_response and whose prompt is not yet prepared (line 178
\* is the only use of the reference) keeps the list as it is now
Detach(r, sid) ==
    IF /\ r.op \in {"chat", "ws"} /\ r.sid = sid /\ r.attached
       /\ sid \in DOMAIN sessions
       /\ r.fn = "gen" /\ r.pc \notin {"request", "done"}
    THEN [r EXCEPT !.attached = FALSE, !.held = sessions[sid]]
    ELSE r

\* DELETE /sessions/{session_id}
ClearSession ==
    /\ \E sid \in SessionIds :
          /\ sessions' = clear_session(sessions, sid)
          /\ reply' = [kind |-> "cleared", sid |-> sid, code |-> 200,
                       messages |-> <<>>]
          /\ proc' = [p \in DOMAIN proc |-> Detach(proc[p], sid)]
    /\ UNCHANGED <<runtime, inventory, current_model, assembled>>

\* one client of the chat endpoint over an empty session store
InitChat ==
    /\ runtime \in {"up", "down"}
    /\ inventory = {DefaultModel}
    /\ current_model = DefaultModel
    /\ proc = [p \in {"c1"} |-> Idle]
    /\ sessions = <<>>
    /\ reply = NoReply
    /\ assembled = NotAssembled

NextChat ==
    \/ \E p \in DOMAIN proc : ChatCall(p)
    \/ \E p \in DOMAIN proc : CheckStatus(p)
    \/ \E p \in DOMAIN proc : StartCheck(p)
    \/ \E p \in DOMAIN proc : SleepDone(p)
    \/ \E p \in DOMAIN proc : Recheck(p)
    \/ \E p \in DOMAIN proc : GenResponse(p)
    \/ \E p \in DOMAIN proc : RemoteResponse(p)
    \/ \E p \in DOMAIN proc : Finish(p)
    \/ GetHistory
    \/ ClearSession
    \/ RuntimeChange

SpecChat == InitChat /\ [][NextChat]_vars

-----------------------------------------------------------------------------
(* Concurrent chat requests: every coroutine of Procs handles requests of   *)
(* ConcRoutes, on the same session or on different ones.  The routes are    *)
(* remote ones: a handler touches the session store in the same two places  *)
(* whichever backend it awaits in between.                                  *)

\* <<use_online, online_provider, key configured>> of the requests
ConcRoutes == { <<TRUE, "claude", TRUE>>, <<TRUE, "openai", FALSE>> }

InitChatConc ==
    /\ runtime \in {"up", "down"}
    /\ inventory = {DefaultModel}
    /\ current_model = DefaultModel
    /\ proc = [p \in Procs |-> Idle]
    /\ sessions = <<>>
    /\ reply = NoReply
    /\ assembled = NotAssembled

ConcChatCall(p) ==
    /\ proc[p].pc = "idle"
    /\ \E sid \in SessionIds, message \in ChatMessages, route \in ConcRoutes :
          Turn(p, sid, message, route[1], route[2], route[3])

NextChatConc ==
    \/ \E p \in DOMAIN proc : ConcChatCall(p)
    \/ \E p \in DOMAIN proc : RemoteResponse(p)
    \/ \E p \in DOMAIN proc : Finish(p)
    \/ ClearSession

SpecChatConc == InitChatConc /\ [][NextChatConc]_vars

-----------------------------------------------------------------------------
(* One client that talks to the service over the chat endpoint (requests   *)
(* of ConcRoutes) and over a socket (any message), one turn at a time.      *)

InitWs ==
    /\ runtime \in {"up", "down"}
    /\ inventory = {DefaultModel}
    /\ current_model = DefaultModel
    /\ proc = [p \in {"w1"} |-> Idle]
    /\ sessions = <<>>
    /\ reply = NoReply
    /\ assembled = NotAssembled

NextWs ==
    \/ \E p \in DOMAIN proc : ConcChatCall(p)
    \/ \E p \in DOMAIN proc : WsConnect(p)
    \/ \E p \in DOMAIN proc : WsReceive(p)
    \/ \E p \in DOMAIN proc : WsDisconnect(p)
    \/ \E p \in DOMAIN proc : CheckStatus(p)
    \/ \E p \in DOMAIN proc : StartCheck(p)
    \/ \E p \in DOMAIN proc : SleepDone(p)
    \/ \E p \in DOMAIN proc : Recheck(p)
    \/ \E p \in DOMAIN proc : GenResponse(p)
    \/ \E p \in DOMAIN proc : RemoteResponse(p)
    \/ \E p \in DOMAIN proc : Finish(p)
    \/ ClearSession
    \/ RuntimeChange

SpecWs == InitWs /\ [][NextWs]_vars

-----------------------------------------------------------------------------
(* Turns to completion: every coroutine of Procs handles chat requests on   *)
(* the local route or on a route of ConcRoutes.  Each await of a handler    *)
(* ends: the HTTP clients carry a timeout (get_client line 25, httpx's      *)
(* default for the adapters' clients), asyncio.sleep(5) returns, and the    *)
(* event loop resumes every coroutine whose await has ended.                *)

\* <<use_online, online_provider, key configured>> of the requests
LiveRoutes == ConcRoutes \cup { <<FALSE, "none", FALSE>> }

\* the message text of the requests
LiveMessages == {"m1"}

LiveChatCall(p) ==
    /\ proc[p].pc = "idle"
    /\ \E sid \in SessionIds, message \in LiveMessages, route \in LiveRoutes :
          Turn(p, sid, message, route[1], route[2], route[3])

\* the await caller p is suspended on ends and its handler runs on
Resume(p) ==
    \/ CheckStatus(p)
    \/ StartCheck(p)
    \/ SleepDone(p)
    \/ Recheck(p)
    \/ GenResponse(p)
    \/ RemoteResponse(p)

NextLive ==
    \/ \E p \in DOMAIN proc : LiveChatCall(p)
    \/ \E p \in DOMAIN proc : Resume(p)
    \/ \E p \in DOMAIN proc : Finish(p)
    \/ RuntimeChange

SpecLive ==
    /\ InitChatConc
    /\ [][NextLive]_vars
    /\ \A p \in Procs : WF_vars(Resume(p))

-----------------------------------------------------------------------------
(* _prepare_prompt as a function of the message and the history.  A        *)
(* prompt is kept as its parts: the system preamble, the rendered lines in  *)
(* order and the trailing cue; the content of the i-th message of a         *)
(* history is the number i and the content of the new message is 0.         *)

Roles == {"user", "assistant"}

\* a history whose entries have the roles given; every entry of a session
\* is written by chat_endpoint with role user or assistant
History(roles) == [i \in 1..Len(roles) |-> Message(roles[i], i)]

InitPrompt ==
    /\ runtime = "up"
    /\ inventory = {DefaultModel}
    /\ current_model = DefaultModel
    /\ proc = [p \in {} |-> Idle]
    /\ sessions = <<>>
    /\ reply = NoReply
    /\ \E n \in 0..MaxHistory : \E roles \in [1..n -> Roles] :
          assembled = [NotAssembled EXCEPT !.history = History(roles)]

\* generate_response line 178: the prompt is prepared
Assemble ==
    /\ assembled.prompt = NoPrompt
    /\ assembled' =
          [assembled EXCEPT !.prompt = prepare_prompt(assembled.message,
                                                      assembled.history)]
    /\ UNCHANGED <<runtime, inventory, current_model, proc, sessions, reply>>

NextPrompt == Assemble

SpecPrompt == InitPrompt /\ [][NextPrompt]_vars

-----------------------------------------------------------------------------
(* Properties *)

\* caller p's switch_model call returns in this step
SwitchReturns(p) ==
    /\ proc[p].pc # "done"
    /\ proc'[p].pc = "done"
    /\ proc'[p].op = "switch"

\* the progress lines ls hold an event whose status contains "success"
HasSuccessEvent(ls) ==
    \E i \in 1..Len(ls) :
        ls[i].kind = "event" /\ ContainsSuccess(ls[i].status)

\* the progress lines ls hold a failure event that no success event follows
ExplicitFailure(ls) ==
    \E i \in 1..Len(ls) :
        /\ ls[i].kind = "event" /\ ls[i].status = "error"
        /\ \A j \in (i + 1)..Len(ls) :
              ~(ls[j].kind = "event" /\ ContainsSuccess(ls[j].status))

\* the response fragments of the events among the lines ls, in order
RECURSIVE Fragments(_)
Fragments(ls) ==
    IF ls = <<>>
    THEN <<>>
    ELSE (IF Head(ls).kind = "event" /\ Head(ls).has_response
          THEN <<Head(ls).response>>
          ELSE <<>>) \o Fragments(Tail(ls))

\* C1: start_ollama is single-flight: while one caller's start attempt is
\* in flight (between its spawn and the answer to its re-probe) no other
\* caller spawns the runtime, so concurrent callers cause at most one spawn.
C1_SingleFlightStart ==
    \A p, q \in DOMAIN proc :
        (p # q /\ proc[p].pc = "start_sleep")
            => proc[q].pc \notin {"start_sleep", "start_recheck"}

\* C2: a generation request (streaming or not) is outstanding or being
\* streamed only in a call whose last health probe, the direct one or the
\* re-probe of start_ollama, answered that the runtime is up.
C2_GenerateOnlyAfterProbeUp ==
    \A p \in DOMAIN proc :
        (proc[p].fn \in {"gen", "stream"} /\ proc[p].pc \in {"request", "lines"})
            => proc[p].probe = "up"

\* C2 witness: a generation request sent after a start attempt whose
\* re-probe succeeded.
C2_Witness ==
    \E p \in DOMAIN proc :
        /\ proc[p].op = "gen" /\ proc[p].pc = "request"
        /\ proc[p].spawns = 1 /\ proc[p].probe = "up"

\* C3: switch_model does not commit on an error probe: a switch whose
\* probe generation returned an error text returns False.
C3_NoCommitOnErrorProbe ==
    \A p \in DOMAIN proc :
        (proc[p].op = "switch" /\ proc[p].pc = "done"
            /\ proc[p].test_response \in ErrorTexts)
            => ~proc[p].ok

\* C4: when switch_model returns for a model that the listing held and
\* whose probe generation was answered 200 with an empty response, it
\* returns False and current_model keeps its value.
C4_EmptyProbeDoesNotCommit ==
    [][\A p \in DOMAIN proc :
          (/\ SwitchReturns(p)
           /\ proc'[p].name \in proc'[p].available
           /\ proc'[p].status = 200
           /\ proc'[p].test_response = "")
              => (~proc'[p].ok /\ current_model' = current_model)]_vars

\* C4 witness: a returned switch to a listed model, other than the current
\* one, whose probe was answered 200 with an empty response.
C4_Witness ==
    \E p \in DOMAIN proc :
        /\ proc[p].op = "switch" /\ proc[p].pc = "done"
        /\ proc[p].name \in proc[p].available
        /\ proc[p].status = 200 /\ proc[p].posts = 1
        /\ proc[p].test_response = ""
        /\ ~proc[p].ok
        /\ current_model # proc[p].name

\* C5: when switch_model returns for a model absent from the listing and
\* pull_model returned False, it returns False, has sent no generation
\* request, and current_model keeps its value.
C5_FailedPullDoesNotCommit ==
    [][\A p \in DOMAIN proc :
          (/\ SwitchReturns(p)
           /\ proc'[p].listed
           /\ proc'[p].name \notin proc'[p].available
           /\ proc'[p].pulled = "failed")
              => (/\ ~proc'[p].ok
                  /\ proc'[p].posts = 0
                  /\ "/api/generate" \notin proc'[p].sent
                  /\ current_model' = current_model)]_vars

\* C5 witness: a returned switch to an unlisted model, other than the
\* current one, whose pull request was sent and failed.
C5_Witness ==
    \E p \in DOMAIN proc :
        /\ proc[p].op = "switch" /\ proc[p].pc = "done"
        /\ proc[p].listed /\ proc[p].name \notin proc[p].available
        /\ proc[p].pulled = "failed" /\ "/api/pull" \in proc[p].sent
        /\ ~proc[p].ok
        /\ current_model # proc[p].name

\* C6: whenever switch_model returns True, the model name was in a listing
\* of the runtime's inventory made by the call before the commit.
C6_CommitOnlyIfListed ==
    \A p \in DOMAIN proc :
        Committed(proc[p]) => proc[p].name \in proc[p].available

\* C7: for a pull answered 200, pull_model returns True if and only if the
\* lines it read hold an event whose status contains "success".
C7_PullTrueIffSuccessEvent ==
    \A p \in DOMAIN proc :
        (proc[p].op = "pull" /\ proc[p].pc = "done" /\ proc[p].status = 200)
            => (proc[p].ok <=> HasSuccessEvent(proc[p].lines))

\* C8: pull_model returns False when the request or the stream raised,
\* when the answer was not 200, or when a failure event was followed by no
\* success event; and when the runtime could not be started it returns
\* False without sending the pull request.
C8_PullFalseOnFailure ==
    \A p \in DOMAIN proc :
        (proc[p].op = "pull" /\ proc[p].pc = "done")
            => /\ (proc[p].raised \/ proc[p].status = 500
                     \/ ExplicitFailure(proc[p].lines)) => ~proc[p].ok
               /\ proc[p].probe = "down"
                     => (~proc[p].ok /\ "/api/pull" \notin proc[p].sent)

\* C9: a stream that ended on its terminal event has yielded exactly the
\* response fragments of the events before the terminal event, in order;
\* the terminal event adds no chunk (a, b, terminal yields a, b).
C9_ChunksAreFragmentsBeforeTerminal ==
    \A p \in DOMAIN proc :
        (/\ proc[p].op = "stream" /\ proc[p].pc = "done"
         /\ proc[p].status = 200 /\ ~proc[p].raised
         /\ proc[p].lines # <<>>
         /\ proc[p].lines[Len(proc[p].lines)].kind = "event"
         /\ proc[p].lines[Len(proc[p].lines)].done)
            => proc[p].chunks
                  = Fragments(SubSeq(proc[p].lines, 1, Len(proc[p].lines) - 1))

\* the chunks yielded from an answered, unbroken stream are the response
\* fragments of the events read, in the order read
C10_ChunksFollowEvents ==
    \A p \in DOMAIN proc :
        (proc[p].op = "stream" /\ proc[p].status = 200 /\ ~proc[p].raised)
            => proc[p].chunks = Fragments(proc[p].lines)

\* reading an unparseable line yields nothing and leaves the stream open
C10_MalformedStep ==
    \A p \in DOMAIN proc :
        (/\ proc[p].fn = "stream" /\ proc[p].pc = "lines"
         /\ Len(proc'[p].lines) = Len(proc[p].lines) + 1
         /\ proc'[p].lines[Len(proc'[p].lines)].kind = "malformed")
            => (/\ proc'[p].pc = "lines"
                /\ proc'[p].fn = "stream"
                /\ proc'[p].chunks = proc[p].chunks)

\* C10: in streaming generate an unparseable line is dropped without a
\* chunk and without ending the stream, and every event read after it is
\* still yielded, in order.
C10_MalformedLineSkipped ==
    []C10_ChunksFollowEvents /\ [][C10_MalformedStep]_vars

\* C10 witness: a finished stream whose first line was unparseable and
\* whose later events were yielded.
C10_Witness ==
    \E p \in DOMAIN proc :
        /\ proc[p].op = "stream" /\ proc[p].pc = "done"
        /\ proc[p].lines = <<Malformed, Event("a", FALSE), Event("", TRUE)>>
        /\ proc[p].chunks = <<"a", "">>

\* caller p's chat request completes in this step
TurnReturns(p) ==
    /\ proc[p].pc # "done"
    /\ proc'[p].pc = "done"
    /\ proc'[p].op = "chat"

\* C11: when a chat turn on the local path returns after the runtime was
\* found down and could not be started, the caller gets a non-empty error
\* text and the session ends with the turn's user message followed by an
\* assistant message holding that text.
C11_DownTurnStoresError ==
    [][\A p \in DOMAIN proc :
          (TurnReturns(p) /\ ~proc'[p].use_online /\ proc'[p].probe = "down")
              => LET sid == proc'[p].sid
                     h == get_session_history(sessions', sid)
                 IN  /\ ~proc'[p].fault
                     /\ proc'[p].text # ""
                     /\ Len(h) >= 2
                     /\ h[Len(h) - 1] = Message("user", proc'[p].message)
                     /\ h[Len(h)] = Message("assistant", proc'[p].text)]_vars

\* C12: no chat turn ends in a fault: under every interleaving with the
\* other requests, the handler returns a response text and never raises
\* HTTPException(500).
C12_TurnNeverFaults ==
    \A p \in DOMAIN proc : ~proc[p].fault

\* C13: every step leaves each session's history as it was, extends it at
\* its end, or deletes it through clear_session; no step changes a stored
\* message or the order of stored messages, and a step that appends to one
\* session leaves the other sessions' histories as they were.
C13_HistoryAppendOnly ==
    [][/\ \A sid \in SessionIds :
             LET h == get_session_history(sessions, sid)
                 g == get_session_history(sessions', sid)
             IN  \/ /\ sid \in DOMAIN sessions /\ sid \notin DOMAIN sessions'
                    /\ reply' = [kind |-> "cleared", sid |-> sid, code |-> 200,
                                 messages |-> <<>>]
                 \/ /\ sid \in DOMAIN sessions => sid \in DOMAIN sessions'
                    /\ Len(g) >= Len(h)
                    /\ SubSeq(g, 1, Len(h)) = h
       /\ \A sid, other \in SessionIds :
             (/\ sid # other
              /\ get_session_history(sessions', sid)
                    # get_session_history(sessions, sid))
                 => get_session_history(sessions', other)
                       = get_session_history(sessions, other)]_vars

\* C13 witness: one turn has completed on a session while a turn on the
\* other session, started before it, is still waiting for its backend.
C13_Witness ==
    \E p, q \in DOMAIN proc :
        /\ proc[p].op = "chat" /\ proc[p].pc \notin {"idle", "done"}
        /\ proc[q].op = "chat" /\ proc[q].pc = "done" /\ ~proc[q].fault
        /\ proc[p].sid # proc[q].sid
        /\ proc[p].sid \in DOMAIN sessions /\ proc[q].sid \in DOMAIN sessions
        /\ sessions[proc[p].sid] = <<Message("user", proc[p].message)>>
        /\ sessions[proc[q].sid] =
              <<Message("user", proc[q].message),
                Message("assistant", proc[q].text)>>

\* C14: the lines _prepare_prompt renders are the last min(n, 10) messages
\* of a history of n messages, oldest first and each under its role,
\* followed by the new message as a user line; a history of ten or more
\* messages gives exactly ten history lines.
C14_PromptWindow ==
    assembled.prompt # NoPrompt =>
        LET h == assembled.history
            n == Len(h)
            k == IF n < HistoryWindow THEN n ELSE HistoryWindow
            ls == assembled.prompt.lines
        IN  /\ Len(ls) = k + 1
            /\ \A i \in 1..k :
                  /\ ls[i].content = h[n - k + i].content
                  /\ ls[i].speaker =
                        (IF h[n - k + i].role = "user"
                         THEN "User" ELSE "Assistant")
            /\ ls[k + 1] = Line("User", assembled.message)
            /\ n >= HistoryWindow => Len(ls) = HistoryWindow + 1

\* C14 witness: a prompt prepared from a history of 15 messages begins
\* with the 6th message and holds ten history lines.
C14_Witness ==
    /\ Len(assembled.history) = 15
    /\ assembled.prompt # NoPrompt
    /\ Len(assembled.prompt.lines) = 11
    /\ assembled.prompt.lines[1].content = 6
    /\ assembled.prompt.lines[10].content = 15

\* C15: a chat turn with use_online true sends no request to the local
\* runtime (no probe, no generation request), and a turn with use_online
\* false sends no request to a remote provider.
C15_OnlineNeverLocal ==
    \A p \in DOMAIN proc :
        proc[p].op = "chat" =>
            /\ proc[p].use_online
                  => (/\ proc[p].fn # "gen"
                      /\ proc[p].posts = 0
                      /\ proc[p].probe = "none")
            /\ ~proc[p].use_online => proc[p].remote = 0

\* C16: generate reports failure as content.  When the runtime could not
\* be started, generate_response returns the one error text and
\* generate_streaming_response yields exactly one error chunk, and neither
\* has sent a generation request; a raised request, a broken stream or a
\* non-200 answer also ends in an error text, never in a fault.
C16_GenerateFailureAsContent ==
    \A p \in DOMAIN proc :
        proc[p].pc = "done" =>
            /\ (proc[p].op = "gen" /\ proc[p].probe = "down")
                  => (/\ proc[p].text = ErrUnavailable
                      /\ proc[p].posts = 0 /\ ~proc[p].fault)
            /\ (proc[p].op = "stream" /\ proc[p].probe = "down")
                  => (/\ proc[p].chunks = <<ErrUnavailable>>
                      /\ proc[p].posts = 0 /\ ~proc[p].fault)
            /\ (proc[p].op = "gen" /\ (proc[p].raised \/ proc[p].status = 500))
                  => (proc[p].text \in ErrorTexts /\ ~proc[p].fault)
            /\ (proc[p].op = "stream" /\ (proc[p].raised \/ proc[p].status = 500))
                  => (/\ proc[p].chunks # <<>>
                      /\ proc[p].chunks[Len(proc[p].chunks)] \in ErrorTexts
                      /\ ~proc[p].fault)

\* C16 witness: a generate_response call that spawned the runtime, found
\* it still down and returned the error text.
C16_Witness ==
    \E p \in DOMAIN proc :
        /\ proc[p].op = "gen" /\ proc[p].pc = "done"
        /\ proc[p].spawns = 1 /\ proc[p].probe = "down"
        /\ proc[p].text = ErrUnavailable

\* caller p receives the answer of a version probe in this step
ProbeAnswered(p) ==
    /\ proc[p].pc \in {"check", "start_check", "start_recheck"}
    /\ proc'[p] # proc[p]

\* C17: check_ollama_status never raises and returns True exactly when the
\* version probe is answered 200: on True the caller goes on to its
\* request with the runtime seen up, otherwise it does not send the
\* request and has seen the runtime down.
C17_HealthCheckIffUp ==
    [][\A p \in DOMAIN proc :
          ProbeAnswered(p) =>
              /\ ~proc'[p].fault
              /\ runtime = "up"
                    => (proc'[p].pc = "request" /\ proc'[p].probe = "up")
              /\ runtime = "down"
                    => (/\ proc'[p].pc # "request"
                        /\ proc'[p].probe # "up"
                        /\ proc'[p].fn = proc[p].fn
                              => proc'[p].probe = "down")]_vars

\* C17 witness: a caller whose probe was answered while the runtime was
\* down and who therefore entered start_ollama.
C17_Witness ==
    \E p \in DOMAIN proc :
        /\ proc[p].pc = "start_check" /\ proc[p].probe = "down"
        /\ runtime = "down"

\* C18: get_available_models returns the empty list without querying
\* /api/tags when the runtime could not be started, and returns the empty
\* list when the listing request raises or is answered non-200; it never
\* ends in a fault.
C18_ListEmptyOnFailure ==
    \A p \in DOMAIN proc :
        (proc[p].op = "list" /\ proc[p].pc = "done") =>
            /\ ~proc[p].fault
            /\ proc[p].probe = "down"
                  => (proc[p].models = {} /\ "/api/tags" \notin proc[p].sent)
            /\ (proc[p].raised \/ proc[p].status = 500) => proc[p].models = {}

\* C18 witness: a listing that spawned the runtime, found it still down
\* and returned the empty list while the runtime holds models.
C18_Witness ==
    \E p \in DOMAIN proc :
        /\ proc[p].op = "list" /\ proc[p].pc = "done"
        /\ proc[p].spawns = 1 /\ proc[p].probe = "down"
        /\ proc[p].models = {} /\ inventory # {}

\* C19: get_session_history answers 200 with the stored messages, and with
\* the empty list for an id that is not in the store (never used, or
\* cleared), and changes nothing; clear_session answers 200, leaves the id
\* out of the store, and changes nothing when the id was not in the store.
C19_UnknownSessionIsEmpty ==
    [][/\ (reply' # reply /\ reply'.kind = "history")
             => (/\ reply'.code = 200
                 /\ sessions' = sessions
                 /\ reply'.sid \notin DOMAIN sessions
                       => reply'.messages = <<>>
                 /\ reply'.sid \in DOMAIN sessions
                       => reply'.messages = sessions[reply'.sid])
       /\ (reply' # reply /\ reply'.kind = "cleared")
             => (/\ reply'.code = 200
                 /\ reply'.sid \notin DOMAIN sessions'
                 /\ reply'.sid \notin DOMAIN sessions
                       => sessions' = sessions)]_vars

\* C19 witness: the history of a session that was cleared while its turn
\* is still in flight was asked for and came back empty, another session
\* being stored.
C19_Witness ==
    /\ reply.kind = "history" /\ reply.messages = <<>>
    /\ reply.sid \notin DOMAIN sessions
    /\ DOMAIN sessions # {}
    /\ \E p \in DOMAIN proc :
          proc[p].sid = reply.sid /\ proc[p].pc \notin {"idle", "done"}

\* the entries of a preference list
Entries(prefs) == {prefs[i] : i \in 1..Len(prefs)}

\* C20: optimize_model_selection returns the first preference entry that
\* the listing holds; when the listing holds none it returns the first
\* entry if pulling it succeeded, and the current model otherwise; the
\* name returned is always a preference entry or the current model.
C20_OptimizePicksFirstAvailable ==
    \A p \in DOMAIN proc :
        (proc[p].op = "optimize" /\ proc[p].pc = "done") =>
            LET prefs == proc[p].prefs
                avail == proc[p].available
                hit == Entries(prefs) \cap avail # {}
            IN  /\ hit => \E i \in 1..Len(prefs) :
                              /\ proc[p].text = prefs[i]
                              /\ prefs[i] \in avail
                              /\ \A j \in 1..(i - 1) : prefs[j] \notin avail
                /\ (~hit /\ prefs # <<>> /\ proc[p].pulled = "ok")
                      => proc[p].text = prefs[1]
                /\ (~hit /\ (prefs = <<>> \/ proc[p].pulled = "failed"))
                      => proc[p].text = current_model
                /\ hit => proc[p].pulled = "none"
                /\ proc[p].text \in Entries(prefs) \cup {current_model}

\* C20 witness: the listing holds the second preference entry only, and
\* that entry is returned.
C20_Witness ==
    \E p \in DOMAIN proc :
        /\ proc[p].op = "optimize" /\ proc[p].pc = "done"
        /\ proc[p].prefs = <<"mistral", "llama3.2">>
        /\ proc[p].available = {"llama3.2"}
        /\ proc[p].text = "llama3.2"

\* the texts the remote path can hand to the turn handler
RemoteTexts ==
    {RemoteNotConfigured, RemoteAnswer, RemoteApiError, RemoteException}

\* caller p's turn went to the adapter of one of the three providers
AdapterCalled(p) ==
    /\ proc[p].op \in {"chat", "ws"}
    /\ UseRemote(proc[p].use_online, proc[p].provider)
    /\ proc[p].provider \in Providers

\* C21: a turn routed to a provider adapter that finds no API key has
\* already returned the "not configured" sentinel as the backend's text,
\* and has sent no request to the provider.
C21_NoKeyNoRequest ==
    \A p \in DOMAIN proc :
        (AdapterCalled(p) /\ ~proc[p].has_key)
            => (/\ proc[p].pc = "done"
                /\ proc[p].response = RemoteNotConfigured
                /\ proc[p].remote = 0
                /\ proc[p].sent = {})

\* C21 witness: a chat turn for openai without a key has returned the
\* sentinel, which is stored as the assistant message.
C21_Witness ==
    \E p \in DOMAIN proc :
        /\ proc[p].op = "chat" /\ proc[p].provider = "openai"
        /\ proc[p].use_online /\ ~proc[p].has_key
        /\ proc[p].text = RemoteNotConfigured /\ proc[p].remote = 0
        /\ proc[p].sid \in DOMAIN sessions
        /\ sessions[proc[p].sid] =
              <<Message("user", proc[p].message),
                Message("assistant", RemoteNotConfigured)>>

\* C22: a turn on the remote path sends at most one request to the
\* provider, and when the path has returned, the backend's text is a
\* non-empty string: the status text for a non-200 answer, the exception
\* text for a raised request or an unsupported provider name (for which
\* nothing is sent).
C22_RemoteAlwaysText ==
    \A p \in DOMAIN proc :
        (/\ proc[p].op \in {"chat", "ws"}
         /\ UseRemote(proc[p].use_online, proc[p].provider))
            => /\ proc[p].remote <= 1
               /\ proc[p].posts = 0
               /\ proc[p].pc = "done"
                     => (/\ proc[p].response \in RemoteTexts
                         /\ proc[p].response # ""
                         /\ proc[p].raised
                               => proc[p].response = RemoteException
                         /\ proc[p].status = 500
                               => proc[p].response = RemoteApiError
                         /\ proc[p].provider \notin Providers
                               => (/\ proc[p].response = RemoteException
                                   /\ proc[p].remote = 0
                                   /\ ~proc[p].fault))

\* C22 witness: a chat turn whose one request to the provider was answered
\* 500 has returned the status text.
C22_Witness ==
    \E p \in DOMAIN proc :
        /\ proc[p].op = "chat" /\ proc[p].pc = "done"
        /\ proc[p].provider = "deepseek" /\ proc[p].remote = 1
        /\ proc[p].status = 500 /\ ~proc[p].fault
        /\ proc[p].text = RemoteApiError

C24_TurnsSerialized ==
    \A sid \in DOMAIN sessions :
        \A i \in 1..Len(sessions[sid]) :
            sessions[sid][i].role = (IF i % 2 = 1 THEN "user" ELSE "assistant")

\* the smaller of two numbers
Min(a, b) == IF a < b THEN a ELSE b

\* C25: the prompt a chat turn sends to the runtime holds the last
\* min(n, 10) of the n messages the session held before the turn, and the
\* new message once, as the last line before the cue.  (While the turn's
\* list is in the store and no other turn runs, the session holds those n
\* messages and the turn's user message.)
C25_PromptWindowsOverPriorMessages ==
    \A p \in DOMAIN proc :
        (/\ proc[p].op = "chat" /\ proc[p].fn = "gen"
         /\ proc[p].pc = "request" /\ proc[p].attached
         /\ proc[p].sid \in DOMAIN sessions)
            => LET n == Len(sessions[proc[p].sid]) - 1
                   ls == proc[p].prompt.lines
               IN  /\ Len(ls) = Min(n, HistoryWindow) + 1
                   /\ ls[Len(ls)] = Line("User", proc[p].message)
                   /\ \A i \in 1..(Len(ls) - 1) :
                         ls[i].content
                            = sessions[proc[p].sid][n - Len(ls) + 1 + i].content

\* caller p's turn, on the chat endpoint or on a socket, completes in this
\* step
TurnCompletes(p) ==
    /\ proc[p].pc # "done"
    /\ proc'[p].pc = "done"
    /\ proc'[p].op \in {"chat", "ws"}

\* C26: when a turn completes with a response, on the chat endpoint or on
\* a socket, the session's history ends with the turn's user message
\* followed by an assistant message holding the response.
C26_EveryTurnStored ==
    [][\A p \in DOMAIN proc :
          (TurnCompletes(p) /\ ~proc'[p].fault)
              => LET h == get_session_history(sessions', proc'[p].sid)
                 IN  /\ Len(h) >= 2
                     /\ h[Len(h) - 1] = Message("user", proc'[p].message)
                     /\ h[Len(h)] = Message("assistant", proc'[p].response)]_vars

\* the speaker _prepare_prompt writes for a message of role user or
\* assistant
Speaker(role) == IF role = "user" THEN "User" ELSE "Assistant"

\* C27: the prompt _prepare_prompt returns is the system preamble, then one
\* line per windowed message, in order, "User: <content>" or
\* "Assistant: <content>" by its role, then the line "User: <message>" of
\* the new turn, then the assistant cue with no content; every part is
\* fixed by the inputs, and the history and the message passed in are left
\* as they were.
C27_PromptShape ==
    [][(assembled.prompt = NoPrompt /\ assembled'.prompt # NoPrompt)
          => LET h == assembled.history
                 w == Recent(h)
                 ls == assembled'.prompt.lines
             IN  /\ assembled'.history = h
                 /\ assembled'.message = assembled.message
                 /\ assembled'.prompt.preamble = "System"
                 /\ assembled'.prompt.cue = "Assistant"
                 /\ Len(ls) = Len(w) + 1
                 /\ \A i \in 1..Len(w) :
                       ls[i] = Line(Speaker(w[i].role), w[i].content)
                 /\ ls[Len(ls)] = Line("User", assembled.message)
                 /\ \A i \in 1..Len(ls) :
                       ls[i].speaker \in {"User", "Assistant"}]_vars

\* C27 witness: the prompt prepared from a user message and an assistant
\* message is the preamble, their two lines, the new user line and the cue.
C27_Witness ==
    /\ assembled.history = <<Message("user", 1), Message("assistant", 2)>>
    /\ assembled.prompt =
          [preamble |-> "System",
           lines |-> <<Line("User", 1), Line("Assistant", 2),
                       Line("User", assembled.message)>>,
           cue |-> "Assistant"]

\* the positions of a caller inside start_ollama
StartPcs == {"start_check", "start_sleep", "start_recheck"}

\* caller p's start_ollama call takes a step
StartStep(p) ==
    /\ proc[p].pc \in StartPcs
    /\ proc'[p] # proc[p]

\* C28: start_ollama returns True at once, spawning nothing, when its probe
\* is answered 200; otherwise it spawns the runtime once, sleeps, probes
\* once more and returns that probe's result, so the caller sends its
\* request exactly when the re-probe succeeded; when the spawn raises it
\* returns False without a fault and the caller sends no request.
C28_StartSequence ==
    [][\A p \in DOMAIN proc :
          StartStep(p) =>
              /\ ~proc'[p].fault
              /\ (proc[p].pc = "start_check" /\ runtime = "up")
                    => (/\ proc'[p].spawns = proc[p].spawns
                        /\ proc'[p].pc = "request")
              /\ (proc[p].pc = "start_check" /\ runtime = "down")
                    => \/ /\ proc'[p].spawns = proc[p].spawns + 1
                          /\ proc'[p].pc = "start_sleep"
                       \/ /\ proc'[p].spawns = proc[p].spawns
                          /\ proc'[p].pc \notin StartPcs \cup {"request"}
              /\ proc[p].pc = "start_sleep"
                    => (/\ proc'[p].spawns = proc[p].spawns
                        /\ proc'[p].pc = "start_recheck")
              /\ proc[p].pc = "start_recheck"
                    => (/\ proc'[p].spawns = proc[p].spawns
                        /\ proc'[p].pc \notin StartPcs
                        /\ proc'[p].pc = "request" <=> runtime = "up")]_vars

\* C28 witness: a pull_model call whose start_ollama spawned the runtime,
\* found it up on the re-probe and returned True, so the pull request is
\* sent.
C28_Witness ==
    \E p \in DOMAIN proc :
        /\ proc[p].op = "pull" /\ proc[p].pc = "request"
        /\ proc[p].spawns = 1 /\ proc[p].probe = "up"
        /\ "/api/pull" \in proc[p].sent

\* the status of the runtime as a caller inside or just out of
\* start_ollama holds it: Down before the spawn, Starting from the spawn to
\* the answer of the re-probe, then what the last probe said
AttemptStatus(r) ==
    CASE r.pc = "start_check" -> "Down"
      [] r.pc \in {"start_sleep", "start_recheck"} -> "Starting"
      [] OTHER -> IF r.probe = "up" THEN "Up" ELSE "Down"

\* C29: within one start_ollama call the status goes from Down to Starting
\* by exactly one spawn, and from Starting to Up or Down by the answer of
\* the re-probe; Starting is entered only from Down, no process is spawned
\* while Starting, and Up is reached only on a probe answered 200.
C29_StatusMonotonic ==
    [][\A p \in DOMAIN proc :
          LET s == AttemptStatus(proc[p])
              t == AttemptStatus(proc'[p])
          IN  /\ (t = "Starting" /\ s # "Starting")
                    => (/\ proc[p].pc = "start_check"
                        /\ proc'[p].spawns = proc[p].spawns + 1)
              /\ StartStep(p) =>
                    /\ s = "Down"
                          => (t # "Starting"
                                 => proc'[p].spawns = proc[p].spawns)
                    /\ s = "Starting"
                          => (/\ proc'[p].spawns = proc[p].spawns
                              /\ proc'[p].pc # "start_check"
                              /\ proc[p].pc = "start_recheck"
                                    => t \in {"Up", "Down"})
                    /\ t = "Up"
                          => (runtime = "up" /\ proc'[p].probe = "up")]_vars

\* C29 witness: a streaming call went from Down to Starting by one spawn
\* and from Starting to Up on the re-probe.
C29_Witness ==
    \E p \in DOMAIN proc :
        /\ proc[p].op = "stream" /\ proc[p].pc = "request"
        /\ proc[p].spawns = 1
        /\ AttemptStatus(proc[p]) = "Up"

\* caller p's generation request fails in this step: it raises, times out
\* or is answered non-200
GenerationFails(p) ==
    /\ proc[p].op \in {"gen", "stream"}
    /\ proc[p].pc \in {"request", "lines"}
    /\ proc'[p] # proc[p]
    /\ proc'[p].raised \/ proc'[p].status = 500

\* C30: a generate_response or generate_streaming_response call posts at
\* most one generation request and makes at most one start attempt with at
\* most one spawn; once past the availability check it never checks again,
\* and a request that raises or is answered non-200 ends the call with an
\* error text as its content and is not sent again.
C30_GenerateAtMostOnce ==
    [][\A p \in DOMAIN proc :
          proc'[p].op \in {"gen", "stream"} =>
              /\ proc'[p].posts <= 1
              /\ proc'[p].spawns <= 1
              /\ (/\ proc[p].pc \in StartPcs \cup {"request", "lines"}
                  /\ proc'[p] # proc[p])
                    => proc'[p].pc \notin {"check", "start_check"}
              /\ GenerationFails(p)
                    => (/\ proc'[p].pc = "done"
                        /\ proc'[p].posts = proc[p].posts
                        /\ ~proc'[p].fault
                        /\ proc'[p].op = "gen"
                              => proc'[p].text \in ErrorTexts
                        /\ proc'[p].op = "stream"
                              => (/\ proc'[p].chunks # <<>>
                                  /\ proc'[p].chunks[Len(proc'[p].chunks)]
                                        \in ErrorTexts))]_vars

\* C30 witness: a generate_response call that spawned the runtime, posted
\* one request, was answered 500 and returned the status error text.
C30_Witness ==
    \E p \in DOMAIN proc :
        /\ proc[p].op = "gen" /\ proc[p].pc = "done"
        /\ proc[p].spawns = 1 /\ proc[p].posts = 1
        /\ proc[p].status = 500 /\ proc[p].text = ErrStatus

\* the lines ls hold an event with done true
HasTerminal(ls) ==
    \E i \in 1..Len(ls) : ls[i].kind = "event" /\ ls[i].done

\* C31: the streaming loop ends on the event with done true: the step that
\* reads it ends the call and closes the response, and a call that has read
\* it reads no further line and yields no further chunk, whatever the
\* runtime would send next.
C31_StopsAtTerminalEvent ==
    [][\A p \in DOMAIN proc :
          proc'[p].op = "stream" =>
              /\ HasTerminal(proc'[p].lines)
                    => (/\ proc'[p].pc = "done"
                        /\ proc'[p].stream = "closed"
                        /\ LET ls == proc'[p].lines
                           IN  ~HasTerminal(SubSeq(ls, 1, Len(ls) - 1)))
              /\ HasTerminal(proc[p].lines)
                    => (/\ proc'[p].lines = proc[p].lines
                        /\ proc'[p].chunks = proc[p].chunks)]_vars

\* C31 witness: a stream ended on the terminal event it read second, the
\* runtime still being up.
C31_Witness ==
    \E p \in DOMAIN proc :
        /\ proc[p].op = "stream" /\ proc[p].pc = "done"
        /\ proc[p].lines = <<Event("b", FALSE), Event("", TRUE)>>
        /\ proc[p].stream = "closed"
        /\ runtime = "up"

\* caller p's handler posts a request to a remote provider in this step
RemotePosts(p) ==
    /\ proc'[p].op \in {"chat", "ws"}
    /\ proc'[p].pc = "remote"
    /\ proc[p].pc # "remote"

\* the turns of a request body without its system message
Conversation(messages) == SelectSeq(messages, LAMBDA m : m.role # "system")

\* C32: the request an adapter posts to its provider carries the last ten
\* messages the session held before the turn, as turns in their order,
\* followed by the new user message; for a session that held messages it
\* is never the new message alone.
C32_RemoteSendsHistory ==
    [][\A p \in DOMAIN proc :
          RemotePosts(p) =>
              LET prior == get_session_history(sessions, proc'[p].sid)
              IN  Conversation(proc'[p].messages)
                     = Recent(prior)
                          \o <<Message("user", proc'[p].message)>>]_vars

\* caller p's chat turn is in flight
TurnInFlight(p) ==
    proc[p].op = "chat" /\ proc[p].pc \notin {"idle", "done"}

\* C33: every chat turn that was submitted completes: its handler comes to
\* its end with the backend's text or with an error, whatever the runtime,
\* the start attempt and the other turns do.
C33_TurnCompletes ==
    \A p \in Procs : TurnInFlight(p) ~> (proc[p].pc = "done")

\* C33 witness: a chat turn on the local route came to its end with the
\* unavailable text after its start attempt failed, while the turn of
\* another client on the same session was still in flight.
C33_Witness ==
    \E p \in DOMAIN proc, q \in DOMAIN proc :
        /\ p # q
        /\ proc[p].op = "chat" /\ proc[p].pc = "done"
        /\ proc[p].spawns = 1 /\ proc[p].response = ErrUnavailable
        /\ TurnInFlight(q) /\ proc[q].sid = proc[p].sid

\* C34: current_model changes only in the step in which a switch_model call
\* returns True, and then to that call's model name; steps of every other
\* method, and a switch_model call that returns False, leave it as it was.
C34_PointerFrame ==
    [][/\ current_model' # current_model
             => \E p \in DOMAIN proc :
                   /\ SwitchReturns(p)
                   /\ proc'[p].ok
                   /\ current_model' = proc'[p].name
       /\ \A p \in DOMAIN proc :
             (proc'[p] # proc[p] /\ proc'[p].op # "switch")
                 => current_model' = current_model
       /\ \A p \in DOMAIN proc :
             (SwitchReturns(p) /\ ~proc'[p].ok)
                 => current_model' = current_model]_vars

\* C34 witness: with the pointer moved by an earlier switch, a generation
\* with another model explicitly given has returned and the pointer is
\* still the switched-to model.
C34_Witness ==
    \E p \in DOMAIN proc :
        /\ current_model = "mistral"
        /\ proc[p].op = "gen" /\ proc[p].pc = "done"
        /\ proc[p].name = "llama3.2" /\ proc[p].posts = 1

\* C35: one switch_model call spawns the runtime at most once, whichever of
\* its steps (listing, pull, probe generation) find the runtime down.
C35_SwitchSpawnsOnce ==
    \A p \in DOMAIN proc : proc[p].op = "switch" => proc[p].spawns <= 1

\* C36: delete_model and get_model_info never call start_ollama: no
\* process is spawned, and when their probe finds the runtime down they
\* return False / None without a fault and without having sent their
\* request.
C36_NoStartOnDeleteInfo ==
    \A p \in DOMAIN proc :
        proc[p].op \in {"delete", "info"} =>
            /\ proc[p].spawns = 0
            /\ proc[p].pc \notin StartPcs
            /\ proc[p].probe = "down"
                  => (/\ proc[p].pc = "done"
                      /\ ~proc[p].ok /\ ~proc[p].fault
                      /\ proc[p].sent = {})

\* C36 witness: delete_model for an installed model returned False on a
\* failed probe, the model still being installed.
C36_Witness ==
    \E p \in DOMAIN proc :
        /\ proc[p].op = "delete" /\ proc[p].pc = "done"
        /\ proc[p].probe = "down" /\ ~proc[p].ok
        /\ proc[p].name \in inventory
        /\ proc[p].sent = {}

\* C37: when the route /models/switch answers success naming model X as
\* the current model, the manager's current_model is X.
C37_SwitchAnswerMatchesPointer ==
    \A p \in DOMAIN proc :
        (/\ proc[p].endpoint = "switch" /\ proc[p].pc = "done"
         /\ proc[p].code = 200)
            => current_model = proc[p].name

\* C38: when the manager's switch_model or pull_model returned False to its
\* route, the route answers with status 400.
C38_FailureIsClientError ==
    \A p \in DOMAIN proc :
        (/\ proc[p].endpoint \in {"switch", "pull"} /\ proc[p].pc = "done"
         /\ proc[p].endpoint = "switch" => proc[p].provider = "ollama"
         /\ ~proc[p].ok)
            => proc[p].code = 400

=============================================================================
